---- MODULE Spec2Model ----
(***************************************************************************)
(* Model of src/logistic_sgd.py: the minibatch training loop with its      *)
(* patience-based early stopping (sgd_optimization_mnist) and the          *)
(* error-rate operation of the classifier (LogisticRegression.errors).     *)
(*                                                                         *)
(* The numeric work of the classifier (softmax, gradients) is abstracted:  *)
(* each evaluation of the validation or test split yields a loss drawn     *)
(* from a small set.  Everything that decides control flow (batch counts,  *)
(* cadence, patience, best loss, stop test) is modelled as written.        *)
(***************************************************************************)
EXTENDS Integers, Sequences, FiniteSets, TLC

(* ---------------------------------------------------------------- bounds *)

\* Largest number of rows in a dataset split.
MaxRows == 3

\* Largest batch_size argument tried (the smallest is -1).
MaxBatch == 2

\* Largest n_epochs argument tried (the smallest is -1).
MaxEpochs == 5

\* The initial patience.  The source sets 5000 (line 313); the model scales
\* it down so that the budget can run out within MaxEpochs * MaxRows steps.
InitialPatience == 4

\* Longest label vector handed to errors().
MaxLen == 2

\* Largest number of dimensions of the label tensor handed to errors().
MaxNdim == 2

\* Largest class index in a label or prediction vector.
MaxClass == 1

(* ------------------------------------------------------ program constants *)

\* patience_increase = 2
patience_increase == 2

\* improvement_threshold = 0.995, as the fraction ThresholdNum / ThresholdDen
ThresholdNum == 995
ThresholdDen == 1000

\* self.y_pred = T.argmax(self.p_y_given_x, axis=1): a vector
y_pred_ndim == 1

(* ------------------------------------------------------ python arithmetic *)

\* Python's builtin max / min on two integers.
Max(a, b) == IF a >= b THEN a ELSE b
Min(a, b) == IF a <= b THEN a ELSE b

\* Python 2 integer division a / b (floor of the quotient), b # 0.
PyFloorDiv(a, b) == IF b > 0 THEN a \div b ELSE (0 - a) \div (0 - b)

\* Python integer modulo a % b (sign of the divisor), b # 0.
PyMod(a, b) == IF b > 0 THEN a % b ELSE 0 - ((0 - a) % (0 - b))

\* xrange(n): 0 .. n-1, empty when n <= 0.
xrange(n) == 0 .. (n - 1)

(* ----------------------------------------------------------------- floats *)

\* A float is a finite number (v counts millionths), +infinity or NaN.
Num(v) == [k |-> "num", v |-> v]
Inf == [k |-> "inf", v |-> 0]
NaN == [k |-> "nan", v |-> 0]

\* a < b on floats: false whenever a NaN is involved.
FloatLt(a, b) ==
    CASE a.k = "nan" \/ b.k = "nan" -> FALSE
      [] a.k = "inf" -> FALSE
      [] b.k = "inf" -> TRUE
      [] OTHER -> a.v < b.v

\* x * improvement_threshold
TimesThreshold(x) ==
    IF x.k = "num" THEN Num((x.v * ThresholdNum) \div ThresholdDen) ELSE x

\* The error rates a sweep over a split with at least one batch can yield.
LossValues == {Num(0), Num(999000), Num(1000000)}

\* numpy.mean([model(i) for i in xrange(n_batches)]): a loss, or NaN when the
\* list is empty.
MeanOutcomes(n_batches) == IF n_batches > 0 THEN LossValues ELSE {NaN}

(* ------------------------------------------------------------------ state *)

VARIABLES
    \* arguments and dataset sizes
    n_train, n_valid, n_test,   \* rows of the three splits
    batch_size, n_epochs, learning_rate,
    \* locals of sgd_optimization_mnist
    n_train_batches, n_valid_batches, n_test_batches,
    patience, validation_frequency,
    best_validation_loss, test_score, this_validation_loss,
    done_looping, epoch, minibatch_index, iter,
    for_pos,                    \* position of the xrange iterator
    pc, fault,
    \* what has been done so far
    steps,                      \* calls of train_model
    n_validations,              \* sweeps over the validation split
    n_test_evals,               \* sweeps over the test split
    requested,                  \* batch indices requested, per split
    min_seen, test_at_min,      \* least validation loss seen, test loss then
    last_significant,           \* iter of the latest significant improvement
    params,                     \* W and b: "zero" as constructed, or "updated"
    \* the call of LogisticRegression.errors
    y_ndim, y_dtype, y_pred, y, errors_result

config == <<n_train, n_valid, n_test, batch_size, n_epochs, learning_rate>>
counts == <<n_train_batches, n_valid_batches, n_test_batches>>
controller == <<patience, best_validation_loss, test_score, this_validation_loss>>
loopvars == <<done_looping, epoch, minibatch_index, iter, for_pos>>
history == <<steps, n_validations, n_test_evals, requested, min_seen, test_at_min,
             last_significant, params>>
errargs == <<y_ndim, y_dtype, y_pred, y>>
vars == <<config, counts, controller, validation_frequency, loopvars, pc, fault,
          history, errargs, errors_result>>

Splits == {"train", "valid", "test"}

(* ----------------------------------------------- LogisticRegression.errors *)

\* dtype names, as the strings of characters Theano gives them
INT8 == <<"i", "n", "t", "8">>
INT32 == <<"i", "n", "t", "3", "2">>
INT64 == <<"i", "n", "t", "6", "4">>
UINT8 == <<"u", "i", "n", "t", "8">>
FLOAT32 == <<"f", "l", "o", "a", "t", "3", "2">>
FLOAT64 == <<"f", "l", "o", "a", "t", "6", "4">>
Dtypes == {INT8, INT32, INT64, UINT8, FLOAT32, FLOAT64}

\* str.startswith
startswith(s, prefix) ==
    /\ Len(s) >= Len(prefix)
    /\ SubSeq(s, 1, Len(prefix)) = prefix

\* T.mean(T.neq(y_pred, y)): mismatches over length (NaN when empty)
MeanNeq(pred, lab) ==
    [kind |-> "value",
     num |-> Cardinality({i \in 1..Len(pred) : pred[i] # lab[i]}),
     den |-> Len(pred)]

Raised(e) == [kind |-> e, num |-> 0, den |-> 0]

\* The condition of the second check of errors(): y.dtype.startswith('int')
IntDtypeCheck(dtype) == startswith(dtype, <<"i", "n", "t">>)

\* errors(self, y).  Building the TypeError evaluates target.type, and no
\* name `target` exists in the function or the module: a NameError is what
\* propagates.
errors(ndim, dtype, pred, lab) ==
    IF ndim # y_pred_ndim
    THEN Raised("NameError")
    ELSE IF IntDtypeCheck(dtype)
         THEN MeanNeq(pred, lab)
         ELSE Raised("NotImplementedError")

\* y = T.ivector('y'): the labels the training code hands to errors()
IVectorNdim == 1

(* ------------------------------------------------- sgd_optimization_mnist *)

\* index * batch_size : (index + 1) * batch_size of an array of n rows
\* (a Python slice is clipped to the array)
Slice(n, index, bs) ==
    {r \in 0..(n - 1) : index * bs <= r /\ r < (index + 1) * bs}

\* n_batches = shape[0] / batch_size
NumBatches_Ceil(n, bs) == PyFloorDiv(n + bs - 1, bs)

NumBatches(n, bs) == PyFloorDiv(n, bs)

\* validation_frequency = min(n_train_batches, patience / 2)
ValidationFrequency_Short(ntb, pat) == Min(ntb, PyFloorDiv(pat, 2)) - 1

ValidationFrequency(ntb, pat) == Min(ntb, PyFloorDiv(pat, 2))

\* this_validation_loss < best_validation_loss
IsNewBest_OrEqual(this, best) == ~FloatLt(best, this) /\ this.k # "nan"

IsNewBest(this, best) == FloatLt(this, best)

\* this_validation_loss < best_validation_loss * improvement_threshold
IsSignificant_AnyImprovement(this, best) == FloatLt(this, best)

IsSignificant(this, best) == FloatLt(this, TimesThreshold(best))

\* patience = max(patience, iter * patience_increase)
ExtendPatience_OneBased(pat, it) == Max(pat, (it + 1) * patience_increase)

ExtendPatience(pat, it) == Max(pat, it * patience_increase)

\* patience <= iter
StopCondition_OneBased(pat, it) == pat <= it + 1

StopCondition_Strict(pat, it) == pat < it

StopCondition(pat, it) == pat <= it

\* (iter + 1) % validation_frequency == 0
CadenceHit(it, vf) == PyMod(it + 1, vf) = 0

TrainingIdle ==
    /\ n_train_batches = 0 /\ n_valid_batches = 0 /\ n_test_batches = 0
    /\ patience = 0 /\ validation_frequency = 0
    /\ best_validation_loss = Inf /\ test_score = Num(0)
    /\ this_validation_loss = NaN
    /\ done_looping = FALSE /\ epoch = 0 /\ minibatch_index = 0 /\ iter = 0
    /\ for_pos = 0
    /\ fault = "none"
    /\ steps = 0 /\ n_validations = 0 /\ n_test_evals = 0
    /\ requested = [s \in Splits |-> {}]
    /\ min_seen = Inf /\ test_at_min = Num(0)
    /\ last_significant = 0
    /\ params = "zero"

\* The state on entry to sgd_optimization_mnist, for any arguments and data.
Init ==
    /\ n_train \in 0..MaxRows
    /\ n_valid \in 0..MaxRows
    /\ n_test \in 0..MaxRows
    /\ batch_size \in -1..MaxBatch
    /\ n_epochs \in -1..MaxEpochs
    /\ learning_rate \in {0, 1}
    /\ TrainingIdle
    /\ pc = "setup"
    /\ y_ndim = IVectorNdim /\ y_dtype = INT32 /\ y_pred = <<>> /\ y = <<>>
    /\ errors_result = Raised("none")

\* lines 245-254: load the data, compute the batch counts
Setup ==
    /\ pc = "setup"
    /\ IF batch_size = 0
       THEN /\ fault' = "ZeroDivisionError"
            /\ pc' = "error"
            /\ UNCHANGED counts
       ELSE /\ n_train_batches' = NumBatches(n_train, batch_size)
            /\ n_valid_batches' = NumBatches(n_valid, batch_size)
            /\ n_test_batches' = NumBatches(n_test, batch_size)
            /\ pc' = "build"
            /\ UNCHANGED fault
    /\ UNCHANGED <<config, controller, validation_frequency, loopvars, history,
                   errargs, errors_result>>

\* lines 262-306: build the graph; classifier.errors(y) is called on the
\* symbolic int32 label vector
BuildModel ==
    /\ pc = "build"
    /\ errors_result' = errors(y_ndim, y_dtype, y_pred, y)
    /\ IF errors_result'.kind = "value"
       THEN pc' = "init" /\ UNCHANGED fault
       ELSE pc' = "error" /\ fault' = errors_result'.kind
    /\ UNCHANGED <<config, counts, controller, validation_frequency, loopvars,
                   history, errargs>>

\* lines 313-330: the early-stopping parameters and the loop variables
InitTraining ==
    /\ pc = "init"
    /\ patience' = InitialPatience
    /\ validation_frequency' = ValidationFrequency(n_train_batches, InitialPatience)
    /\ best_validation_loss' = Inf
    /\ test_score' = Num(0)
    /\ done_looping' = FALSE
    /\ epoch' = 0
    /\ pc' = "while"
    /\ UNCHANGED <<config, counts, this_validation_loss, minibatch_index, iter,
                   for_pos, fault, history, errargs, errors_result>>

\* lines 331-333: the while test holds; a new epoch and a fresh xrange
EnterEpoch ==
    /\ pc = "while"
    /\ epoch < n_epochs /\ ~done_looping
    /\ epoch' = epoch + 1
    /\ for_pos' = 0
    /\ pc' = "for"
    /\ UNCHANGED <<config, counts, controller, validation_frequency, done_looping,
                   minibatch_index, iter, fault, history, errargs, errors_result>>

\* lines 331, 372-380: the while test fails; report and return
ExitLoop ==
    /\ pc = "while"
    /\ ~(epoch < n_epochs /\ ~done_looping)
    /\ pc' = "done"
    /\ UNCHANGED <<config, counts, controller, validation_frequency, loopvars,
                   fault, history, errargs, errors_result>>

\* lines 295-296: W - learning_rate * g_W, b - learning_rate * g_b.  A zero
\* learning rate leaves the parameters as they are; otherwise they move,
\* unless the gradient happens to vanish.
GradientStep(p, lr) == IF lr = 0 THEN {p} ELSE {p, "updated"}

\* line 337: iter = (epoch - 1) * n_train_batches + minibatch_index
IterIndex_EpochNotReduced(ep, ntb, index) == ep * ntb + index

IterIndex(ep, ntb, index) == (ep - 1) * ntb + index

\* lines 333-337: the next minibatch: one gradient step, then iter
TrainStep ==
    /\ pc = "for"
    /\ for_pos \in xrange(n_train_batches)
    /\ minibatch_index' = for_pos
    /\ for_pos' = for_pos + 1
    /\ steps' = steps + 1
    /\ requested' = [requested EXCEPT !["train"] = @ \cup {for_pos}]
    /\ params' \in GradientStep(params, learning_rate)
    /\ iter' = IterIndex(epoch, n_train_batches, for_pos)
    /\ pc' = "check"
    /\ UNCHANGED <<config, counts, controller, validation_frequency, done_looping,
                   epoch, fault, n_validations, n_test_evals, min_seen, test_at_min,
                   last_significant, errargs, errors_result>>

\* line 333: the xrange is exhausted; back to the while test
EndEpoch ==
    /\ pc = "for"
    /\ for_pos \notin xrange(n_train_batches)
    /\ pc' = "while"
    /\ UNCHANGED <<config, counts, controller, validation_frequency, loopvars,
                   fault, history, errargs, errors_result>>

\* line 339, with the stop test of line 368 moved inside the if
CadenceTest_StopInsideIf ==
    /\ pc = "check"
    /\ IF validation_frequency = 0
       THEN pc' = "error" /\ fault' = "ZeroDivisionError"
       ELSE /\ pc' = IF CadenceHit(iter, validation_frequency)
                     THEN "validate" ELSE "for"
            /\ UNCHANGED fault
    /\ UNCHANGED <<config, counts, controller, validation_frequency, loopvars,
                   history, errargs, errors_result>>

\* line 339: the cadence test
CadenceTest ==
    /\ pc = "check"
    /\ IF validation_frequency = 0
       THEN pc' = "error" /\ fault' = "ZeroDivisionError"
       ELSE /\ pc' = IF CadenceHit(iter, validation_frequency)
                     THEN "validate" ELSE "stop"
            /\ UNCHANGED fault
    /\ UNCHANGED <<config, counts, controller, validation_frequency, loopvars,
                   history, errargs, errors_result>>

\* lines 340-366: a validation check.  v is the mean validation loss; t is
\* the mean test loss the test sweep yields if it is run.
ControllerUpdate(v, t) ==
    /\ this_validation_loss' = v
    /\ n_validations' = n_validations + 1
    /\ IF IsNewBest(v, best_validation_loss)
       THEN /\ patience' = IF IsSignificant(v, best_validation_loss)
                           THEN ExtendPatience(patience, iter)
                           ELSE patience
            /\ last_significant' = IF IsSignificant(v, best_validation_loss)
                                   THEN iter ELSE last_significant
            /\ best_validation_loss' = v
            /\ test_score' = t
            /\ n_test_evals' = n_test_evals + 1
            /\ requested' = [requested EXCEPT
                               !["valid"] = @ \cup xrange(n_valid_batches),
                               !["test"] = @ \cup xrange(n_test_batches)]
       ELSE /\ UNCHANGED <<patience, best_validation_loss, test_score,
                           n_test_evals, last_significant>>
            /\ requested' = [requested EXCEPT
                               !["valid"] = @ \cup xrange(n_valid_batches)]
    \* the record of what was seen, kept apart from the code's own test
    /\ IF v.k = "num" /\ (min_seen.k = "inf" \/ v.v < min_seen.v)
       THEN min_seen' = v /\ test_at_min' = t
       ELSE UNCHANGED <<min_seen, test_at_min>>

\* lines 340-370, with the stop test made on patience as it stood before
\* the check
Validate_StopFirst ==
    /\ pc = "validate"
    /\ \E v \in MeanOutcomes(n_valid_batches), t \in MeanOutcomes(n_test_batches) :
        ControllerUpdate(v, t)
    /\ IF StopCondition(patience, iter)
       THEN done_looping' = TRUE /\ pc' = "while"
       ELSE done_looping' = done_looping /\ pc' = "stop"
    /\ UNCHANGED <<config, counts, validation_frequency, epoch, minibatch_index,
                   iter, for_pos, fault, steps, params, errargs, errors_result>>

\* lines 340-366: the validation check of an iteration on the cadence
Validate ==
    /\ pc = "validate"
    /\ \E v \in MeanOutcomes(n_valid_batches), t \in MeanOutcomes(n_test_batches) :
        ControllerUpdate(v, t)
    /\ pc' = "stop"
    /\ UNCHANGED <<config, counts, validation_frequency, loopvars, fault, steps,
                   params, errargs, errors_result>>

\* lines 368-369, without the break of line 370
StopByPatience_NoBreak ==
    /\ pc = "stop"
    /\ StopCondition(patience, iter)
    /\ done_looping' = TRUE
    /\ pc' = "for"
    /\ UNCHANGED <<config, counts, controller, validation_frequency, epoch,
                   minibatch_index, iter, for_pos, fault, history, errargs,
                   errors_result>>

\* lines 368-370: the stop test holds; leave the for loop
StopByPatience ==
    /\ pc = "stop"
    /\ StopCondition(patience, iter)
    /\ done_looping' = TRUE
    /\ pc' = "while"
    /\ UNCHANGED <<config, counts, controller, validation_frequency, epoch,
                   minibatch_index, iter, for_pos, fault, history, errargs,
                   errors_result>>

\* line 368: the stop test fails; on to the next minibatch
ContinueLoop ==
    /\ pc = "stop"
    /\ ~StopCondition(patience, iter)
    /\ pc' = "for"
    /\ UNCHANGED <<config, counts, controller, validation_frequency, loopvars,
                   fault, history, errargs, errors_result>>

Next ==
    \/ Setup
    \/ BuildModel
    \/ InitTraining
    \/ EnterEpoch
    \/ ExitLoop
    \/ TrainStep
    \/ EndEpoch
    \/ CadenceTest
    \/ Validate
    \/ StopByPatience
    \/ ContinueLoop

Spec == Init /\ [][Next]_vars

\* The loop is sequential code: whatever step is enabled is taken.
FairSpec == Spec /\ WF_vars(Next)

(* ------------------------------------------------------------ the claims *)

\* C1, as stated: at every validation check whose loss is significant,
\* patience becomes max(patience, iteration * patience_increase) with
\* iteration the 1-based count of gradient steps done so far.
C1_PatienceOneBased ==
    [][(pc = "validate" /\ IsSignificant(this_validation_loss', best_validation_loss))
        => patience' = Max(patience, steps * patience_increase)]_vars

\* C1, amended: at every validation check whose loss is significant, patience
\* becomes max(patience, iter * patience_increase) with iter the 0-based
\* index of the gradient step just done (the number of steps done, less one).
C1_PatienceZeroBased ==
    [][(pc = "validate" /\ IsSignificant(this_validation_loss', best_validation_loss))
        => patience' = Max(patience, (steps - 1) * patience_increase)]_vars

\* A significant check has just raised patience above its initial value.
C1_Witness ==
    /\ pc = "stop"
    /\ n_validations > 1
    /\ this_validation_loss = best_validation_loss
    /\ patience > InitialPatience
    /\ patience = (steps - 1) * patience_increase

\* Where the stop test of the current iteration has been decided.
AfterStopTest == pc \in {"for", "while", "done"} /\ steps > 0

\* C2, as stated: the loop stops at the first iteration whose 1-based count
\* of gradient steps reaches patience.
C2_StopsAtOneBasedPatience ==
    AfterStopTest => (done_looping <=> steps >= patience)

\* C2, amended: the loop stops at the first iteration whose 0-based index
\* (gradient steps done, less one) reaches patience, that is after the
\* smallest number k of gradient steps with k - 1 >= patience.
C2_StopsAtZeroBasedPatience ==
    AfterStopTest => (done_looping <=> steps - 1 >= patience)

\* A run stopped by patience after patience had been extended.
C2_Witness ==
    /\ pc = "done" /\ done_looping
    /\ patience > InitialPatience
    /\ steps = patience + 1

\* C3, as stated: a stop by patience happens only at a validation event,
\* (iteration mod validation_frequency) = 0.
C3_StopsOnlyAtValidation ==
    done_looping => PyMod(steps, validation_frequency) = 0

\* C3, amended: validation_frequency is fixed once before the loop, but the
\* stop test is evaluated after every gradient step, validation event or
\* not, and it alone raises the stop signal, exactly when patience <= iter.
C3_StopTestEveryIteration ==
    [][/\ (pc \in {"while", "for", "check", "validate", "stop"}
            => validation_frequency' = validation_frequency)
       /\ (pc = "check" /\ pc' # "error" => pc' \in {"validate", "stop"})
       /\ (pc = "validate" => pc' = "stop")
       /\ (pc = "stop" => (done_looping' <=> patience <= iter))
       /\ (done_looping' # done_looping => pc = "stop")]_vars

\* A run stopped by patience between two validation checks.
C3_Witness ==
    /\ pc = "done" /\ done_looping
    /\ PyMod(steps, validation_frequency) # 0

\* The validation loss just measured is a number strictly below the best
\* held before the check.
StrictlyBelowBest ==
    /\ this_validation_loss'.k = "num"
    /\ (best_validation_loss.k = "inf"
          \/ this_validation_loss'.v < best_validation_loss.v)

\* C4: best_validation_loss is the least validation loss seen so far
\* (+infinity while none was seen) and test_score is the test loss measured
\* at the earliest check that attained it (0 before); the test split is
\* swept, and either value changed, only by a check whose loss is strictly
\* below the previous best.
C4_BestAndTestScore ==
    /\ [](/\ best_validation_loss = min_seen
          /\ test_score = test_at_min
          /\ (n_validations = 0 =>
                 best_validation_loss = Inf /\ test_score = Num(0)))
    /\ [][(\/ best_validation_loss' # best_validation_loss
           \/ test_score' # test_score
           \/ n_test_evals' # n_test_evals
           \/ requested'["test"] # requested["test"])
          => (pc = "validate" /\ StrictlyBelowBest)]_vars

\* A check with a worse loss has come after two new bests, the second of
\* them a marginal one, and left the best loss and the test score alone.
C4_Witness ==
    /\ pc = "stop"
    /\ n_test_evals = 2 /\ n_validations = 3
    /\ best_validation_loss = Num(999000)
    /\ this_validation_loss = Num(1000000)
    /\ test_score = Num(1000000)

\* The gradient steps of a run that is never stopped early.
FullRunSteps == Max(n_epochs, 0) * Max(n_train_batches, 0)

\* C5, as stated (for positive arguments, where it already fails): a run in which no check ever improves on the best loss is never
\* stopped early and performs max_epochs * num_train_batches steps.
C5_NeverStoppedWithoutImprovement ==
    (/\ pc = "done" /\ best_validation_loss = Inf
     /\ n_epochs > 0 /\ batch_size > 0 /\ learning_rate > 0)
        => /\ ~done_looping
           /\ epoch = n_epochs
           /\ steps = n_epochs * n_train_batches

\* C5, amended: a run in which no check ever improves on the best loss keeps
\* its initial patience; it runs all its epochs only if they hold at most
\* initial_patience gradient steps, and otherwise is stopped by patience
\* after initial_patience + 1 steps.
C5_StoppedAtInitialPatience ==
    (pc = "done" /\ best_validation_loss = Inf)
        => /\ patience = InitialPatience
           /\ IF FullRunSteps > InitialPatience
              THEN done_looping /\ steps = InitialPatience + 1
              ELSE /\ ~done_looping
                   /\ epoch = Max(n_epochs, 0)
                   /\ steps = FullRunSteps

\* A run whose checks never improved on the best loss, stopped early.
C5_Witness ==
    /\ pc = "done" /\ done_looping
    /\ best_validation_loss = Inf
    /\ n_validations > 0
    /\ epoch < n_epochs

\* C6: the loop has ended only if the stop signal was raised or the epochs
\* are used up, and then 0 <= epochs_run <= max_epochs and at most
\* max_epochs * num_train_batches gradient steps were performed.
C6_TerminationBounds ==
    pc = "done"
        => /\ (done_looping \/ epoch >= n_epochs)
           /\ 0 <= epoch /\ epoch <= n_epochs
           /\ steps <= n_epochs * n_train_batches

\* C6, the part that holds of every run: the function always comes to an end
\* (checked under FairSpec).
C6_Terminates == <>(pc \in {"done", "error"})

\* C6, the bounds for n_epochs >= 0 and batch_size > 0.
C6_BoundsOfAcceptableRuns ==
    (pc = "done" /\ n_epochs >= 0 /\ batch_size > 0)
        => /\ (done_looping \/ epoch >= n_epochs)
           /\ 0 <= epoch /\ epoch <= n_epochs
           /\ steps <= n_epochs * n_train_batches

\* Where validation_frequency has been set.
FrequencySet == pc \in {"while", "for", "check", "validate", "stop", "done"}

Rows(split) ==
    CASE split = "train" -> n_train
      [] split = "valid" -> n_valid
      [] split = "test" -> n_test

Batches(split) ==
    CASE split = "train" -> n_train_batches
      [] split = "valid" -> n_valid_batches
      [] split = "test" -> n_test_batches

\* q is the floor of n / b (b # 0)
IsFloorOf(q, n, b) ==
    IF b > 0
    THEN q * b <= n /\ n < (q + 1) * b
    ELSE q * b >= n /\ n > (q + 1) * b

\* C8: each batch count is floor(n_samples / batch_size); every batch index
\* requested of a split is in [0, num_batches), its row range lies inside
\* [0, n_samples) and has batch_size rows, and no trailing row
\* (from num_batches * batch_size on) is ever read.
C8_BatchesInRange ==
    pc \notin {"setup", "error"} =>
        \A split \in Splits :
            /\ IsFloorOf(Batches(split), Rows(split), batch_size)
            /\ \A index \in requested[split] :
                /\ 0 <= index /\ index < Batches(split)
                /\ 0 <= index * batch_size
                /\ (index + 1) * batch_size <= Rows(split)
                /\ Cardinality(Slice(Rows(split), index, batch_size)) = batch_size
                /\ \A r \in Slice(Rows(split), index, batch_size) :
                      r < Rows(split) - PyMod(Rows(split), batch_size)

\* A finished run over splits of 3 rows in batches of 2: one batch of each
\* split was requested and the third row never read.
C8_Witness ==
    /\ pc = "done"
    /\ batch_size = 2
    /\ n_train = 3 /\ n_valid = 3 /\ n_test = 3
    /\ \A split \in Splits : requested[split] = {0}

\* C9: a configuration with non-positive batch_size, learning_rate or
\* max_epochs never trains, validates or reports completion.
C9_RejectsBadConfig ==
    (batch_size <= 0 \/ learning_rate <= 0 \/ n_epochs <= 0)
        => (pc # "done" /\ steps = 0 /\ n_validations = 0)

\* Integer dtypes, signed or unsigned.
IsIntegerDtype(dtype) == dtype \in {INT8, INT32, INT64, UINT8}

\* C10: errors() raises TypeError for labels whose dimensionality differs
\* from the predictions', NotImplementedError for labels of matching
\* dimensionality and non-integer dtype, and returns the mean of the
\* mismatch indicator for integer labels of matching dimensionality.
C10_TwoFailureModes ==
    pc \in {"returned", "raised"}
        => errors_result =
             IF y_ndim # y_pred_ndim THEN Raised("TypeError")
             ELSE IF IsIntegerDtype(y_dtype) THEN MeanNeq(y_pred, y)
             ELSE Raised("NotImplementedError")

\* C10, what holds of the two checks below the first: with labels of
\* matching dimensionality, a dtype whose name starts with 'int' gives the
\* mean and any other dtype NotImplementedError.
C10_SecondCheck ==
    (pc \in {"returned", "raised"} /\ y_ndim = y_pred_ndim)
        => errors_result =
             IF y_dtype \in {INT8, INT32, INT64} THEN MeanNeq(y_pred, y)
             ELSE Raised("NotImplementedError")

\* The validation loss just measured is a number below the best held before
\* the check times improvement_threshold.
SignificantlyBelowBest ==
    /\ this_validation_loss'.k = "num"
    /\ (best_validation_loss.k = "inf"
          \/ this_validation_loss'.v * ThresholdDen
               < best_validation_loss.v * ThresholdNum)

\* C11: patience never decreases and is never below its initial value; it
\* changes only at a validation check whose loss is below best *
\* improvement_threshold; a check that improves on the best by less records
\* the new best and the test score and leaves patience alone.
C11_PatienceGrowsOnlyOnSignificant ==
    /\ [](FrequencySet => patience >= InitialPatience)
    /\ [][FrequencySet =>
            /\ patience' >= patience
            /\ (patience' # patience => pc = "validate" /\ SignificantlyBelowBest)
            /\ (pc = "validate" /\ StrictlyBelowBest /\ ~SignificantlyBelowBest
                  => /\ patience' = patience
                     /\ best_validation_loss' = this_validation_loss'
                     /\ n_test_evals' = n_test_evals + 1)]_vars

\* A marginal improvement (999000 after 1000000) has just been recorded at
\* an iteration late enough to have raised patience had it been significant.
C11_Witness ==
    /\ pc = "stop"
    /\ n_test_evals = 2
    /\ this_validation_loss = Num(999000)
    /\ best_validation_loss = Num(999000)
    /\ patience = InitialPatience
    /\ iter * patience_increase > patience

\* C12: gradient steps come one at a time, on batches 0, 1, ...,
\* num_train_batches - 1 of each epoch in that order, the iteration counter
\* rising by one with each; a validation or test sweep follows the gradient
\* step of its own iteration; once the stop signal is raised no gradient
\* step, validation or test sweep is performed and both loops are left.
C12_FixedOrderAndImmediateStop ==
    /\ [](pc = "while" /\ ~done_looping
            => steps = epoch * Max(n_train_batches, 0))
    /\ [][steps' # steps =>
            /\ steps' = steps + 1
            /\ ~done_looping
            /\ n_train_batches > 0
            /\ minibatch_index' = steps % n_train_batches
            /\ epoch = (steps \div n_train_batches) + 1
            /\ requested'["train"] = requested["train"] \cup {minibatch_index'}
            /\ iter' = steps
            /\ pc' = "check"]_vars
    /\ [][(n_validations' # n_validations \/ n_test_evals' # n_test_evals) =>
            /\ ~done_looping
            /\ pc = "validate"
            /\ iter = steps - 1]_vars
    /\ [][done_looping =>
            /\ steps' = steps /\ params' = params
            /\ n_validations' = n_validations /\ n_test_evals' = n_test_evals
            /\ requested' = requested
            /\ pc \in {"while", "done"} /\ pc' = "done"]_vars

\* A run stopped in the middle of its second epoch or later, with batches
\* of that epoch left untouched.
C12_Witness ==
    /\ pc = "done" /\ done_looping
    /\ epoch >= 2
    /\ for_pos < n_train_batches
    /\ steps = (epoch - 1) * n_train_batches + for_pos

\* C13: at every stop test the 0-based index iter is at most patience, and
\* the loop stops exactly when iter = patience; a run stopped by patience
\* has performed patience + 1 gradient steps and has not stopped at an
\* index below patience_increase times that of its latest significant
\* improvement.
C13_StopsExactlyAtPatience ==
    /\ [](pc \in {"check", "validate", "stop"}
            => iter = (epoch - 1) * n_train_batches + minibatch_index)
    /\ [](pc = "stop" => iter <= patience)
    /\ [](done_looping
            => /\ iter = patience
               /\ steps = patience + 1
               /\ iter >= patience_increase * last_significant)
    /\ [][pc = "stop" => (done_looping' <=> iter = patience)]_vars

\* A run stopped by patience at twice the index of its latest significant
\* improvement, which had raised patience.
C13_Witness ==
    /\ pc = "done" /\ done_looping
    /\ last_significant > 0
    /\ patience > InitialPatience
    /\ iter = patience_increase * last_significant

\* C14: a validation check that falls on the iteration iter = patience > 0
\* is applied before the stop test: if it is a significant improvement,
\* patience is raised above iter and the loop goes on; if not, patience
\* stays, any new best is recorded, and the stop test that follows ends the
\* loop.
C14_UpdateBeforeStopTest ==
    /\ [][(pc = "validate" /\ iter = patience /\ iter > 0) =>
            /\ pc' = "stop" /\ ~done_looping'
            /\ IF SignificantlyBelowBest
               THEN patience' > iter
               ELSE /\ patience' = patience
                    /\ (StrictlyBelowBest =>
                          /\ best_validation_loss' = this_validation_loss'
                          /\ n_test_evals' = n_test_evals + 1)]_vars
    /\ [][pc = "stop" =>
            /\ (patience > iter => pc' = "for" /\ ~done_looping')
            /\ (patience = iter => pc' = "while" /\ done_looping')]_vars

\* The loop has gone on past iter = initial patience, because the check of
\* that very iteration was a significant improvement and doubled patience.
C14_Witness ==
    /\ pc = "for" /\ ~done_looping
    /\ iter = InitialPatience
    /\ last_significant = iter
    /\ patience = patience_increase * iter

\* What C15 says of a run whose training split is smaller than a batch.
EmptyRun ==
    /\ fault = "none"
    /\ pc \notin {"check", "validate", "stop", "error"}
    /\ steps = 0 /\ n_validations = 0 /\ n_test_evals = 0
    /\ (FrequencySet => n_train_batches = 0 /\ validation_frequency = 0)
    /\ (pc = "done" =>
          /\ epoch = n_epochs /\ ~done_looping
          /\ best_validation_loss = Inf
          /\ test_score = Num(0)
          /\ params = "zero")

\* C15: with a training split of fewer rows than batch_size the run raises
\* no fault, never evaluates the cadence test, performs no gradient step,
\* validation or test sweep, runs exactly max_epochs empty epochs and ends
\* with best_validation_loss +infinity, test score 0 and zero parameters.
C15_EmptyTrainingRun == batch_size > n_train => EmptyRun

\* C15, for n_epochs >= 0, where it holds.
C15_EmptyRunOfAcceptableEpochs ==
    (batch_size > n_train /\ n_epochs >= 0) => EmptyRun

\* A run of two or more empty epochs has ended.
C15_EmptyEpochsReached ==
    /\ pc = "done" /\ batch_size > n_train
    /\ n_epochs >= 2 /\ epoch = n_epochs

(* ------------------------------------------- errors() called on its own *)

Vectors(len) == [1..len -> 0..MaxClass]

\* A caller about to hand errors() a label tensor of any rank and dtype.
InitErrors ==
    /\ n_train = 0 /\ n_valid = 0 /\ n_test = 0
    /\ batch_size = 1 /\ n_epochs = 0 /\ learning_rate = 1
    /\ TrainingIdle
    /\ pc = "call"
    /\ y_ndim \in 0..MaxNdim
    /\ y_dtype \in Dtypes
    /\ \E len \in 0..MaxLen : y_pred \in Vectors(len) /\ y \in Vectors(len)
    /\ errors_result = Raised("none")

\* lines 139-146: errors() returns the mean of the mismatch indicator
ErrorsReturns ==
    /\ pc = "call"
    /\ errors(y_ndim, y_dtype, y_pred, y).kind = "value"
    /\ errors_result' = errors(y_ndim, y_dtype, y_pred, y)
    /\ pc' = "returned"
    /\ UNCHANGED <<config, counts, controller, validation_frequency, loopvars,
                   fault, history, errargs>>

\* lines 139-148: errors() raises
ErrorsRaises ==
    /\ pc = "call"
    /\ errors(y_ndim, y_dtype, y_pred, y).kind # "value"
    /\ errors_result' = errors(y_ndim, y_dtype, y_pred, y)
    /\ pc' = "raised"
    /\ UNCHANGED <<config, counts, controller, validation_frequency, loopvars,
                   fault, history, errargs>>

NextErrors == ErrorsReturns \/ ErrorsRaises

SpecErrors == InitErrors /\ [][NextErrors]_vars

====
